---- MODULE Spec2Model ----
(***************************************************************************)
(* Model of src/index.ts: the reducer (the request-lifecycle state         *)
(* machine) and the useKy hook (the lifecycle controller).                 *)
(*                                                                         *)
(* The hook is driven by the host framework.  The model keeps the          *)
(* framework's contract for useReducer / useEffect and nothing more:       *)
(*   - an evaluation (render) returns the reducer state and compares the   *)
(*     dependency array with the previous one; when it differs (or on the  *)
(*     first evaluation) the effect is scheduled;                          *)
(*   - a scheduled effect runs after the evaluation returned and before    *)
(*     the next evaluation: first the cleanup the previous effect          *)
(*     returned, then the effect body;                                     *)
(*   - discarding the component runs the cleanup of the last effect;       *)
(*   - dispatch(a) replaces the state by reducer(state, a), in dispatch    *)
(*     order;                                                              *)
(*   - promise continuations run one at a time, between those steps.       *)
(***************************************************************************)
EXTENDS Integers, Sequences, FiniteSets, TLC

\* ------------------------------------------------------------------ bounds
MaxGen == 2            \* number of requests (generations) one run may start
MaxEvents == 2         \* events fed to the reducer in a run of ReducerSpec

\* ------------------------------------------------------------------ values
Null == <<>>                       \* JavaScript null in a data / error field
Targets == {"null", "", "A", "B"}  \* KyInput: null, empty string, two urls
Methods == {"get", "post"}
\* options.headers, as the ordered list of its (key, value) entries
HeaderBags == {<<>>, <<<<"h", "x">>>>, <<<<"h", "y">>>>}
Bodies == {"b1", "b2"}             \* an option that is not in the dependency array
Values == {"unicorn"}              \* what unwrap may fulfil with
Errors == {"NetworkDown", "UnwrapError"}   \* what transport / unwrap may reject with
AbortError == "AbortError"         \* what the transport rejects with once aborted
Gens == 1..MaxGen

Props == [target : Targets, method : Methods, headers : HeaderBags, body : Bodies]

\* ----------------------------------------------------------- state machine
initialState == [loading |-> FALSE, error |-> Null, data |-> Null]

NoSuchActionType == [thrown |-> "no such action type"]

\* variant: Start is ignored unless already loading
reducerStartGuarded(state, action) ==
  CASE action.type = "init"  -> initialState
    [] action.type = "start" -> state
    [] action.type = "data"  ->
         IF state.loading
           THEN [state EXCEPT !.loading = FALSE, !.data = action.data]
           ELSE state
    [] action.type = "error" ->
         IF state.loading
           THEN [state EXCEPT !.loading = FALSE, !.error = action.error]
           ELSE state
    [] OTHER -> NoSuchActionType

\* variant: Data and Error are applied whatever loading is
reducerNoGuard(state, action) ==
  CASE action.type = "init"  -> initialState
    [] action.type = "start" ->
         IF state.loading THEN state ELSE [state EXCEPT !.loading = TRUE]
    [] action.type = "data"  ->
         [state EXCEPT !.loading = FALSE, !.data = action.data]
    [] action.type = "error" ->
         [state EXCEPT !.loading = FALSE, !.error = action.error]
    [] OTHER -> NoSuchActionType

\* variant: a terminal event clears the other field
reducerClearsOtherField(state, action) ==
  CASE action.type = "init"  -> initialState
    [] action.type = "start" ->
         IF state.loading THEN state ELSE [state EXCEPT !.loading = TRUE]
    [] action.type = "data"  ->
         IF state.loading
           THEN [loading |-> FALSE, error |-> Null, data |-> action.data]
           ELSE state
    [] action.type = "error" ->
         IF state.loading
           THEN [loading |-> FALSE, error |-> action.error, data |-> Null]
           ELSE state
    [] OTHER -> NoSuchActionType

\* variant: Init only clears loading
reducerInitKeepsFields(state, action) ==
  CASE action.type = "init"  -> [state EXCEPT !.loading = FALSE]
    [] action.type = "start" ->
         IF state.loading THEN state ELSE [state EXCEPT !.loading = TRUE]
    [] action.type = "data"  ->
         IF state.loading
           THEN [state EXCEPT !.loading = FALSE, !.data = action.data]
           ELSE state
    [] action.type = "error" ->
         IF state.loading
           THEN [state EXCEPT !.loading = FALSE, !.error = action.error]
           ELSE state
    [] OTHER -> NoSuchActionType

\* variant: Start toggles loading
reducerStartToggles(state, action) ==
  CASE action.type = "init"  -> initialState
    [] action.type = "start" -> [state EXCEPT !.loading = ~state.loading]
    [] action.type = "data"  ->
         IF state.loading
           THEN [state EXCEPT !.loading = FALSE, !.data = action.data]
           ELSE state
    [] action.type = "error" ->
         IF state.loading
           THEN [state EXCEPT !.loading = FALSE, !.error = action.error]
           ELSE state
    [] OTHER -> NoSuchActionType

\* variant: an unknown event is ignored
reducerIgnoresUnknown(state, action) ==
  CASE action.type = "init"  -> initialState
    [] action.type = "start" ->
         IF state.loading THEN state ELSE [state EXCEPT !.loading = TRUE]
    [] action.type = "data"  ->
         IF state.loading
           THEN [state EXCEPT !.loading = FALSE, !.data = action.data]
           ELSE state
    [] action.type = "error" ->
         IF state.loading
           THEN [state EXCEPT !.loading = FALSE, !.error = action.error]
           ELSE state
    [] OTHER -> state

\* variant: Data stores the payload and leaves loading set
reducerDataKeepsLoading(state, action) ==
  CASE action.type = "init"  -> initialState
    [] action.type = "start" ->
         IF state.loading THEN state ELSE [state EXCEPT !.loading = TRUE]
    [] action.type = "data"  ->
         IF state.loading THEN [state EXCEPT !.data = action.data] ELSE state
    [] action.type = "error" ->
         IF state.loading
           THEN [state EXCEPT !.loading = FALSE, !.error = action.error]
           ELSE state
    [] OTHER -> NoSuchActionType

reducer(state, action) ==
  CASE action.type = "init"  -> initialState
    [] action.type = "start" ->
         IF state.loading THEN state ELSE [state EXCEPT !.loading = TRUE]
    [] action.type = "data"  ->
         IF state.loading
           THEN [state EXCEPT !.loading = FALSE, !.data = action.data]
           ELSE state
    [] action.type = "error" ->
         IF state.loading
           THEN [state EXCEPT !.loading = FALSE, !.error = action.error]
           ELSE state
    [] OTHER -> NoSuchActionType

InitAction == [type |-> "init"]
StartAction == [type |-> "start"]
DataAction(d) == [type |-> "data", data |-> d]
ErrorAction(e) == [type |-> "error", error |-> e]

\* -------------------------------------------------------- dependency array
RECURSIVE Keys(_)
Keys(h) == IF h = <<>> THEN <<>> ELSE <<Head(h)[1]>> \o Keys(Tail(h))

RECURSIVE ValuesOf(_)
ValuesOf(h) == IF h = <<>> THEN <<>> ELSE <<Head(h)[2]>> \o ValuesOf(Tail(h))

\* [input, options.method, ...Object.keys(headers), ...Object.values(headers)]
Deps(p) == <<p.target, p.method>> \o Keys(p.headers) \o ValuesOf(p.headers)

Min(a, b) == IF a < b THEN a ELSE b

\* the framework's comparison of two dependency arrays: element by element,
\* over the positions both arrays have
areHookInputsEqual(next, prev) ==
  \A i \in 1..Min(Len(next), Len(prev)) : next[i] = prev[i]

\* !input
Falsy(t) == t \in {"null", ""}

\* -------------------------------------------------------------- controller
VARIABLES
  state,            \* the useReducer state
  returned,         \* what the last evaluation of useKy returned
  rendered,         \* useKy has been evaluated at least once
  props,            \* the arguments of the last evaluation
  effectPending,    \* the last evaluation scheduled the effect, not yet run
  phase,            \* "mounted" | "unmounted" | "faulted" (the effect threw)
  gen,              \* number of generations started so far
  live,             \* the generation whose cleanup is registered, 0 if none
  mountedDispatch,  \* per generation: "unset" | "dispatch" | "noop"
  promise,          \* per generation: "none" | "pending" | "threw" |
                    \* "fulfilled" | "rejected"
  aborts,           \* per generation: calls of abortController.abort()
  outcome,          \* per generation: what the promise settled with, or Null
  settledLive,      \* per generation: the continuation was called while
                    \* mountedDispatch was still dispatch
  log,              \* in program order, as <<kind, generation, payload>>:
                    \* the dispatches that reached the reducer ("init",
                    \* "start", "data", "error"), the transport calls
                    \* ("send") and the aborts ("abort")
  superseded        \* generations whose identity changed while still pending

vars == <<state, returned, rendered, props, effectPending, phase, gen, live,
          mountedDispatch, promise, outcome, settledLive, aborts, log,
          superseded>>

\* the part of the state the closures of one effect read and write
World == [state |-> state, mountedDispatch |-> mountedDispatch,
          promise |-> promise, outcome |-> outcome,
          settledLive |-> settledLive, aborts |-> aborts, log |-> log]

\* what an action carries
Payload(action) ==
  CASE action.type = "data"  -> action.data
    [] action.type = "error" -> action.error
    [] OTHER -> Null

\* dispatch(action) of useReducer, called on behalf of generation g
dispatch(w, action, g) ==
  [w EXCEPT !.state = reducer(w.state, action),
            !.log = Append(w.log, <<action.type, g, Payload(action)>>)]

\* noop
noop(w) == w

\* variant: the redirection to noop is not honoured
callMountedDispatchAlways(w, g, action) == dispatch(w, action, g)

\* mountedDispatch(action) of generation g: dispatch until the cleanup
\* redirected it to noop
callMountedDispatch(w, g, action) ==
  IF w.mountedDispatch[g] = "dispatch" THEN dispatch(w, action, g) ELSE noop(w)

\* variant: the rejection is swallowed
handleErrorDrops(w, g, err) == noop(w)

handleError(w, g, err) == callMountedDispatch(w, g, ErrorAction(err))

\* variant: the fulfilment is swallowed
handleSuccessDrops(w, g, data) == noop(w)

handleSuccess(w, g, data) == callMountedDispatch(w, g, DataAction(data))

\* variant: the cleanup leaves mountedDispatch alone
cleanupNoRedirect(w, g) ==
  LET w2 == [w EXCEPT !.aborts[g] = @ + 1,
                      !.log = Append(w.log, <<"abort", g, Null>>)]
  IN dispatch(w2, InitAction, g)

\* variant: the cleanup does not reset the state
cleanupNoInit(w, g) ==
  LET w1 == [w EXCEPT !.mountedDispatch[g] = "noop"]
  IN [w1 EXCEPT !.aborts[g] = @ + 1,
                !.log = Append(w1.log, <<"abort", g, Null>>)]

\* variant: the cleanup does not abort the request
cleanupNoAbort(w, g) ==
  dispatch([w EXCEPT !.mountedDispatch[g] = "noop"], InitAction, g)

\* the function the effect of generation g returns
cleanup(w, g) ==
  LET w1 == [w EXCEPT !.mountedDispatch[g] = "noop"]
      w2 == [w1 EXCEPT !.aborts[g] = @ + 1,
                       !.log = Append(w1.log, <<"abort", g, Null>>)]
  IN dispatch(w2, InitAction, g)

\* variant: the request is issued before Start is dispatched
effectSendsFirst(w, g, throws) ==
  LET w1 == [w EXCEPT !.mountedDispatch[g] = "dispatch",
                      !.log = Append(w.log, <<"send", g, Null>>),
                      !.promise[g] = IF throws THEN "threw" ELSE "pending"]
  IN callMountedDispatch(w1, g, StartAction)

\* the effect body for a non-empty input, as generation g; `throws` is
\* whether unwrap(ky(input, ...)) throws instead of returning a promise
effect(w, g, throws) ==
  LET w1 == [w EXCEPT !.mountedDispatch[g] = "dispatch"]
      w2 == callMountedDispatch(w1, g, StartAction)
  IN [w2 EXCEPT !.log = Append(w2.log, <<"send", g, Null>>),
                !.promise[g] = IF throws THEN "threw" ELSE "pending"]

\* the cleanup of the previous effect: `() => {}` when its input was empty
previousCleanup(w) == IF live = 0 THEN noop(w) ELSE cleanup(w, live)

Commit(w) ==
  /\ state' = w.state
  /\ mountedDispatch' = w.mountedDispatch
  /\ promise' = w.promise
  /\ outcome' = w.outcome
  /\ settledLive' = w.settledLive
  /\ aborts' = w.aborts
  /\ log' = w.log

Init ==
  /\ state = initialState
  /\ returned = initialState
  /\ rendered = FALSE
  /\ props \in {p \in Props : p.target = "null" /\ p.method = "get"
                               /\ p.headers = <<>> /\ p.body = "b1"}
  /\ effectPending = FALSE
  /\ phase = "mounted"
  /\ gen = 0
  /\ live = 0
  /\ mountedDispatch = [g \in Gens |-> "unset"]
  /\ promise = [g \in Gens |-> "none"]
  /\ outcome = [g \in Gens |-> Null]
  /\ settledLive = [g \in Gens |-> FALSE]
  /\ aborts = [g \in Gens |-> 0]
  /\ log = <<>>
  /\ superseded = {}

\* whether an evaluation with arguments p schedules the effect
DepsChanged(p) == ~rendered \/ ~areHookInputsEqual(Deps(p), Deps(props))

\* one evaluation of useKy(input, options, unwrap)
Render(p) ==
  /\ phase = "mounted"
  /\ ~effectPending
  /\ (DepsChanged(p) /\ ~Falsy(p.target)) => gen < MaxGen
  /\ returned' = state
  /\ rendered' = TRUE
  /\ props' = p
  /\ effectPending' = DepsChanged(p)
  /\ superseded' = IF DepsChanged(p) /\ live # 0 /\ promise[live] = "pending"
                     THEN superseded \cup {live} ELSE superseded
  /\ UNCHANGED <<state, phase, gen, live, mountedDispatch, promise, outcome,
                 settledLive, aborts, log>>

\* the scheduled effect runs with an empty input: previous cleanup, then
\* `return () => {}`
RunEffectEmpty ==
  /\ phase = "mounted"
  /\ effectPending
  /\ Falsy(props.target)
  /\ Commit(previousCleanup(World))
  /\ live' = 0
  /\ effectPending' = FALSE
  /\ UNCHANGED <<returned, rendered, props, phase, gen, superseded>>

\* the scheduled effect runs with a non-empty input: previous cleanup, then
\* the effect body
RunEffect(throws) ==
  /\ phase = "mounted"
  /\ effectPending
  /\ ~Falsy(props.target)
  /\ gen < MaxGen
  /\ Commit(effect(previousCleanup(World), gen + 1, throws))
  /\ gen' = gen + 1
  /\ live' = gen + 1
  /\ phase' = IF throws THEN "faulted" ELSE "mounted"
  /\ effectPending' = FALSE
  /\ UNCHANGED <<returned, rendered, props, superseded>>

\* the consumer is discarded: the cleanup of the last effect runs
Unmount ==
  /\ phase = "mounted"
  /\ rendered
  /\ ~effectPending
  /\ Commit(previousCleanup(World))
  /\ live' = 0
  /\ phase' = "unmounted"
  /\ UNCHANGED <<returned, rendered, props, effectPending, gen, superseded>>

\* the promise of generation g settles and its continuation is called
Settled(w, g, kind, x) ==
  [w EXCEPT !.promise[g] = kind, !.outcome[g] = x,
            !.settledLive[g] = (w.mountedDispatch[g] = "dispatch")]

\* unwrap(ky(...)) of generation g fulfils with v: .then(handleSuccess)
Fulfil(g, v) ==
  /\ promise[g] = "pending"
  /\ Commit(handleSuccess(Settled(World, g, "fulfilled", <<g, v>>), g, <<g, v>>))
  /\ UNCHANGED <<returned, rendered, props, effectPending, phase, gen, live,
                 superseded>>

\* unwrap(ky(...)) of generation g rejects with e: .catch(handleError)
Reject(g, e) ==
  /\ promise[g] = "pending"
  /\ e = AbortError => aborts[g] > 0
  /\ Commit(handleError(Settled(World, g, "rejected", <<g, e>>), g, <<g, e>>))
  /\ UNCHANGED <<returned, rendered, props, effectPending, phase, gen, live,
                 superseded>>

Next ==
  \/ \E p \in Props : Render(p)
  \/ RunEffectEmpty
  \/ \E throws \in BOOLEAN : RunEffect(throws)
  \/ Unmount
  \/ \E g \in Gens, v \in Values : Fulfil(g, v)
  \/ \E g \in Gens, e \in Errors \cup {AbortError} : Reject(g, e)

Spec == Init /\ [][Next]_vars

\* the promise of generation g settles, one way or the other
Settle(g) ==
  \/ \E v \in Values : Fulfil(g, v)
  \/ \E e \in Errors \cup {AbortError} : Reject(g, e)

\* the arguments the evaluations of FairSpec draw from: an empty and two
\* non-empty targets, with and without a header, two bodies
FairProps ==
  {p \in Props : p.target # "" /\ p.method = "get" /\ p.headers # <<<<"h", "y">>>>}

FairNext ==
  \/ \E p \in FairProps : Render(p)
  \/ RunEffectEmpty
  \/ \E throws \in BOOLEAN : RunEffect(throws)
  \/ Unmount
  \/ \E g \in Gens : Settle(g)

\* the controller with the scheduling the framework and the transport
\* provide: a scheduled effect is run, and a pending promise settles
FairSpec ==
  /\ Init /\ [][FairNext]_vars
  /\ WF_vars(RunEffectEmpty)
  /\ WF_vars(\E throws \in BOOLEAN : RunEffect(throws))
  /\ \A g \in Gens : WF_vars(Settle(g))

\* the request identity of the spec: target, method, header keys and header
\* values, compared by value
Identity(p) == <<p.target, p.method, Keys(p.headers), ValuesOf(p.headers)>>

TypeOK ==
  /\ state \in [loading : BOOLEAN, error : {Null} \cup (Gens \X (Errors \cup {AbortError})),
                data : {Null} \cup (Gens \X Values)]
  /\ gen \in 0..MaxGen /\ live \in 0..MaxGen

\* ------------------------------------------- the reducer on its own
\* every KyState, reachable through the controller or not
KyStates ==
  [loading : BOOLEAN,
   error : {Null} \cup (Gens \X (Errors \cup {AbortError})),
   data : {Null} \cup (Gens \X Values)]

\* an action whose type is none of the four
BogusAction == [type |-> "bogus"]

ReducerEvents ==
  {InitAction, StartAction, BogusAction}
    \cup {DataAction(d) : d \in Gens \X Values}
    \cup {ErrorAction(e) : e \in Gens \X (Errors \cup {AbortError})}

\* ReducerSpec feeds the reducer alone: `returned` holds the state the run
\* started from, `log` the events applied so far (generation 0: none) and
\* `state` the result
ReducerInit ==
  /\ state \in KyStates
  /\ returned = state
  /\ rendered = FALSE
  /\ props = [target |-> "null", method |-> "get", headers |-> <<>>, body |-> "b1"]
  /\ effectPending = FALSE
  /\ phase = "mounted"
  /\ gen = 0
  /\ live = 0
  /\ mountedDispatch = [g \in Gens |-> "unset"]
  /\ promise = [g \in Gens |-> "none"]
  /\ outcome = [g \in Gens |-> Null]
  /\ settledLive = [g \in Gens |-> FALSE]
  /\ aborts = [g \in Gens |-> 0]
  /\ log = <<>>
  /\ superseded = {}

\* reducer(state, action); after a throw nothing more is applied
Apply(action) ==
  /\ Len(log) < MaxEvents
  /\ state \in KyStates
  /\ state' = reducer(state, action)
  /\ log' = Append(log, <<action.type, 0, Payload(action)>>)
  /\ UNCHANGED <<returned, rendered, props, effectPending, phase, gen, live,
                 mountedDispatch, promise, outcome, settledLive, aborts,
                 superseded>>

ReducerNext == \E action \in ReducerEvents : Apply(action)

ReducerSpec == ReducerInit /\ [][ReducerNext]_vars

\* ------------------------------------------------------- reading the log
\* positions of the entries of one kind of generation g
Idx(kind, g) == {i \in 1..Len(log) : log[i][1] = kind /\ log[i][2] = g}

\* positions of the terminal events (Data or Error) of generation g
Terminals(g) == Idx("data", g) \cup Idx("error", g)

\* positions of the dispatches that reached the reducer
Dispatches == {i \in 1..Len(log) : log[i][1] \in {"init", "start", "data", "error"}}

Max(S) == CHOOSE x \in S : \A y \in S : y <= x

HasSettled(g) == promise[g] \in {"fulfilled", "rejected"}

loadingState == [loading |-> TRUE, error |-> Null, data |-> Null]

\* ------------------------------------------------------------------ claims

C2_NoEventAfterTeardown ==
  /\ \A g \in Gens : \A i \in Idx("init", g) : \A j \in Terminals(g) : j < i
  /\ \A g \in Gens : (HasSettled(g) /\ ~settledLive[g]) => Terminals(g) = {}
  /\ live = 0 => state = initialState

C2_Witness ==
  /\ live = 0
  /\ \E g, h \in Gens :
       /\ promise[g] = "rejected" /\ outcome[g] = <<g, AbortError>>
       /\ promise[h] = "fulfilled" /\ ~settledLive[h]

\* C3: a rejection that arrives while the generation is live is dispatched
\* as Error with the rejection value itself, directly after that
\* generation's Start and request, and leaves the state at loading false,
\* data null, error the rejection value.
C3_RejectionBecomesError ==
  \A g \in Gens :
    (promise[g] = "rejected" /\ settledLive[g]) =>
      /\ Idx("data", g) = {}
      /\ \E i \in Idx("error", g) :
           /\ log[i] = <<"error", g, outcome[g]>>
           /\ i > 2
           /\ log[i - 1] = <<"send", g, Null>>
           /\ log[i - 2] = <<"start", g, Null>>
           /\ i = Len(log) =>
                state = [loading |-> FALSE, error |-> outcome[g], data |-> Null]

C3_Witness ==
  \E g \in Gens :
    /\ promise[g] = "rejected" /\ settledLive[g]
    /\ outcome[g] = <<g, "UnwrapError">>
    /\ state.error = outcome[g]

\* C4 (as claimed): when the transport call throws after Start, an Error is
\* dispatched and the state leaves loading.
C4_ThrowEmitsError ==
  \A g \in Gens :
    promise[g] = "threw" => (Idx("error", g) # {} /\ ~state.loading)

\* C5 (as claimed): every evaluation with an empty target returns the
\* initial state.
C5_EmptyTargetReturnsInitial ==
  (rendered /\ Falsy(props.target)) => returned = initialState

\* C6: loading is true exactly when the live generation has dispatched Start
\* and no Data or Error of it has reached the reducer.
C6_LoadingIffInFlight ==
  state.loading <=>
    (live # 0 /\ Idx("start", live) # {} /\ Terminals(live) = {})

C6_Witness ==
  /\ gen = 2 /\ live = 2 /\ state.loading
  /\ settledLive[1] /\ Terminals(1) # {}

\* C7: each generation dispatches at most one Start, before its request is
\* issued, and at most one terminal event (Data or Error, not both), which
\* comes after its Start.
C7_StartThenOneTerminal ==
  \A g \in Gens :
    /\ Cardinality(Idx("start", g)) <= 1
    /\ Cardinality(Terminals(g)) <= 1
    /\ \A i \in Idx("send", g) : \E j \in Idx("start", g) : j < i
    /\ \A i \in Terminals(g) : \E j \in Idx("start", g) : j < i

C7_Witness ==
  \E g \in Gens :
    Idx("start", g) # {} /\ Idx("send", g) # {} /\ Terminals(g) # {}

\* C8: when a generation dispatches Start, every earlier generation has been
\* torn down (aborted, redirected to noop, Init dispatched, in that order)
\* and the last dispatch before that Start, if any, is an Init, so the
\* generation starts from the initial state.
C8_TeardownBeforeNextStart ==
  \A g \in Gens : \A i \in Idx("start", g) :
    /\ \A h \in 1..(g - 1) :
         /\ mountedDispatch[h] = "noop"
         /\ \E a \in Idx("abort", h) : \E n \in Idx("init", h) : a < n /\ n < i
    /\ LET before == {j \in Dispatches : j < i}
       IN before # {} => log[Max(before)][1] = "init"

C8_Witness ==
  /\ Idx("start", 2) # {}
  /\ Idx("data", 1) # {}

\* C9: abort is called at most once per generation, only as part of that
\* generation's cleanup (directly followed by its Init), and once the
\* consumer is discarded every generation, pending or not, has been aborted
\* exactly once.
C9_AbortOncePerGeneration ==
  /\ \A g \in Gens :
       /\ aborts[g] <= 1
       /\ Cardinality(Idx("abort", g)) = aborts[g]
       /\ \A i \in Idx("abort", g) :
            /\ i < Len(log)
            /\ log[i + 1] = <<"init", g, Null>>
            /\ mountedDispatch[g] = "noop"
  /\ phase = "unmounted" => \A g \in 1..gen : aborts[g] = 1

C9_Witness ==
  /\ phase = "unmounted"
  /\ \E g \in Gens : promise[g] = "pending" /\ aborts[g] = 1

\* C10: while the live generation is pending the state is loading true, data
\* null, error null; when it fulfils with v, Data(v) is the dispatch that
\* follows its Start with nothing in between, and the state becomes loading
\* false, data v, error null.
C10_FulfilledSequence ==
  /\ (live # 0 /\ promise[live] = "pending") => state = loadingState
  /\ \A g \in Gens :
       (promise[g] = "fulfilled" /\ settledLive[g]) =>
         /\ Idx("error", g) = {}
         /\ \E i \in Idx("data", g) :
              /\ log[i] = <<"data", g, outcome[g]>>
              /\ i > 2
              /\ log[i - 1] = <<"send", g, Null>>
              /\ log[i - 2] = <<"start", g, Null>>
              /\ i = Len(log) =>
                   state = [loading |-> FALSE, error |-> Null, data |-> outcome[g]]

C10_Witness ==
  \E g \in Gens :
    /\ promise[g] = "fulfilled" /\ settledLive[g] /\ g \notin superseded
    /\ live = g
    /\ returned = [loading |-> FALSE, error |-> Null, data |-> outcome[g]]

AllKinds(K) == log # <<>> /\ \A i \in 1..Len(log) : log[i][1] \in K

\* C12: whatever the state and the events before it, after Init the state is
\* exactly loading false, data null, error null.
C12_InitResets ==
  (log # <<>> /\ log[Len(log)][1] = "init") => state = initialState

C12_Witness ==
  /\ Len(log) = 2 /\ log[2][1] = "init" /\ log[1][1] = "data"
  /\ returned.loading /\ returned.error # Null
  /\ state = initialState

\* C13: from a state with loading false, Data and Error events with any
\* payload leave the state as it was.
C13_TerminalIgnoredWhenIdle ==
  (~returned.loading /\ AllKinds({"data", "error"})) => state = returned

C13_Witness ==
  /\ ~returned.loading /\ returned.data # Null
  /\ Len(log) = 2 /\ log[1][1] = "data" /\ log[2][1] = "error"
  /\ log[1][3] # returned.data
  /\ state = returned

\* C14: from a loading state, Data(X) sets loading false and data X and
\* keeps the error field, and Error(e) sets loading false and error e and
\* keeps the data field.
C14_StaleFieldRetention ==
  (Len(log) = 1 /\ returned.loading) =>
    /\ log[1][1] = "data" =>
         state = [loading |-> FALSE, error |-> returned.error, data |-> log[1][3]]
    /\ log[1][1] = "error" =>
         state = [loading |-> FALSE, error |-> log[1][3], data |-> returned.data]

C14_Witness ==
  /\ Len(log) = 1 /\ log[1][1] = "data"
  /\ returned = [loading |-> TRUE, error |-> <<1, "NetworkDown">>, data |-> Null]
  /\ state = [loading |-> FALSE, error |-> <<1, "NetworkDown">>, data |-> log[1][3]]

\* C15: one Start and several Starts in a row give the same state, the
\* starting state with loading true; from the initial state that is loading
\* true, data null, error null.
C15_StartIdempotent ==
  AllKinds({"start"}) =>
    /\ state = [returned EXCEPT !.loading = TRUE]
    /\ returned = initialState => state = loadingState

C15_Witness ==
  /\ Len(log) = 2 /\ AllKinds({"start"})
  /\ returned = initialState /\ state = loadingState

\* C16 (as claimed): with loading false, Start leaves the state unchanged.
C16_StartNoopWhenIdle ==
  (Len(log) = 1 /\ log[1][1] = "start" /\ ~returned.loading) => state = returned

\* C16 (amended): with loading false, Start sets loading true and keeps data
\* and error; with loading true, Start returns the same state.
C16_StartSetsLoading ==
  (Len(log) = 1 /\ log[1][1] = "start") =>
    IF returned.loading
      THEN state = returned
      ELSE /\ state.loading
           /\ state.data = returned.data
           /\ state.error = returned.error

C16_Witness ==
  /\ Len(log) = 1 /\ log[1][1] = "start"
  /\ ~returned.loading /\ returned.data # Null
  /\ state.loading /\ state.data = returned.data

\* C17: an event whose tag is none of init, start, data, error makes the
\* reducer throw: what comes out is the thrown error and never a state.
C17_UnknownEventThrows ==
  (log # <<>> /\ log[Len(log)][1] \notin {"init", "start", "data", "error"}) =>
    /\ state = NoSuchActionType
    /\ state \notin KyStates

C17_Witness ==
  /\ Len(log) = 2 /\ log[2][1] = "bogus"
  /\ state = NoSuchActionType

\* C18 (as claimed): an evaluation schedules a new generation (cleanup of the
\* previous one, then the effect) exactly when it is the first one or its
\* identity differs by value from that of the previous evaluation; any other
\* evaluation leaves the state, the requests and the log alone.
C18_NewGenerationIffIdentityChanges ==
  [][\A p \in Props :
       Render(p) =>
         /\ effectPending' <=> (~rendered \/ Identity(p) # Identity(props))
         /\ UNCHANGED <<state, gen, live, mountedDispatch, promise, aborts, log>>]_vars

\* C19: in every state the controller can reach, data and error are not both
\* non-null, and both are null while loading is true; the same goes for
\* every state an evaluation returns.
C19_DataErrorExclusive ==
  /\ ~(state.data # Null /\ state.error # Null)
  /\ state.loading => (state.data = Null /\ state.error = Null)
  /\ ~(returned.data # Null /\ returned.error # Null)
  /\ returned.loading => (returned.data = Null /\ returned.error = Null)

C19_Witness ==
  /\ live = 2
  /\ Idx("error", 1) # {}
  /\ state.data # Null /\ state.error = Null

\* the state holds the outcome of generation g, with loading false
HoldsOutcome(g) ==
  \/ promise[g] = "fulfilled"
       /\ state = [loading |-> FALSE, error |-> Null, data |-> outcome[g]]
  \/ promise[g] = "rejected"
       /\ state = [loading |-> FALSE, error |-> outcome[g], data |-> Null]

\* C20: if from some point on generation g stays the live one (the identity
\* no longer changes, the consumer is not discarded, the request was issued)
\* then, its promise settling, from some point on loading is false and the
\* state holds g's data or g's error.
C20_EventuallySettled ==
  \A g \in Gens :
    <>[](live = g /\ phase = "mounted" /\ ~effectPending) => <>[]HoldsOutcome(g)

C20_Witness ==
  /\ live = 2 /\ phase = "mounted" /\ ~effectPending
  /\ 1 \in superseded
  /\ HoldsOutcome(2)
====
